---------------------------- MODULE Spec2Model ----------------------------
(***************************************************************************)
(* MarkdownNotebook: the note persistence layer (file_manager.py, with the *)
(* front-matter codec of utils.py), the in-memory search index (search.py) *)
(* and the host window that ties them together (gui_main.py, editor.py).   *)
(*                                                                         *)
(* Text is a sequence of tokens.  A token is a character, Ch(c), or a      *)
(* block of YAML lines, Y(doc): the text PyYAML emits for, or parses to,   *)
(* doc.  PyYAML is a library, not code of this repository, so a block is   *)
(* kept whole and named by what yaml.safe_load makes of it; everything the *)
(* repository itself does to text (the front-matter regular expression,    *)
(* strip, the text-mode newline translation, lower-casing, splitting) is   *)
(* computed character by character.                                        *)
(***************************************************************************)
EXTENDS Integers, Sequences, FiniteSets, TLC

VARIABLES
    fs,        \* the files: path -> entry, for the paths that exist
    dirs,      \* the directories that exist
    now,       \* the wall clock, in seconds
    last,      \* the last Note Store call: its arguments, outcome and pre-state
    saved,     \* the Note of the last successful save whose file is untouched since
    heap,      \* the caller's Note objects: id -> fields
    notes_data,\* SearchIndex.notes_data
    built,     \* heap as it was when build_index last ran
    edits,     \* how many times the caller has changed a field of a Note object
    answer,    \* the last Search Index query and its result
    win        \* the host window: the fields of MainWindow and of its widgets

vars == <<fs, dirs, now, last, saved, heap, notes_data, built, edits, answer, win>>

-----------------------------------------------------------------------------
(* Characters and text *)

Ch(c) == [c |-> c]
Y(doc) == [yaml |-> doc]

NL == Ch("\n")
CR == Ch("\r")
SP == Ch(" ")
DASH == Ch("-")
DOT == Ch(".")
USCORE == Ch("_")

IsYaml(x) == DOMAIN x = {"yaml"}

\* str.isspace() / the regular expression's \s, on the characters of the model
IsSpace(x) == x \in {SP, NL, CR}

Min(S) == CHOOSE x \in S : \A y \in S : x <= y
Max(S) == CHOOSE x \in S : \A y \in S : x >= y

Drop(s, n) == SubSeq(s, n + 1, Len(s))

\* str.strip()
Strip(s) ==
    LET keep == {i \in 1..Len(s) : ~IsSpace(s[i])}
    IN  IF keep = {} THEN <<>> ELSE SubSeq(s, Min(keep), Max(keep))

\* What open(path, 'r').read() returns for the stored text: with newline=None
\* every "\r\n" and every lone "\r" comes back as "\n".
RECURSIVE ReadText(_)
ReadText(s) ==
    IF s = <<>> THEN <<>>
    ELSE IF s[1] = CR
         THEN IF Len(s) >= 2 /\ s[2] = NL
              THEN <<NL>> \o ReadText(Drop(s, 2))
              ELSE <<NL>> \o ReadText(Drop(s, 1))
         ELSE <<s[1]>> \o ReadText(Drop(s, 1))

\* str.lower(), on the characters of the model
LowerCh(x) ==
    IF x = Ch("A") THEN Ch("a")
    ELSE IF x = Ch("B") THEN Ch("b")
    ELSE x

Lower(s) == [i \in 1..Len(s) |-> LowerCh(s[i])]

-----------------------------------------------------------------------------
(* utils.py: the front-matter codec *)

\* The line ends here: a "\n", or a YAML block (its text ends with "\n").
EndsLine(x) == x = NL \/ IsYaml(x)

\* "---" at position i
DashesAt(t, i) ==
    /\ i >= 1
    /\ i + 2 <= Len(t)
    /\ t[i] = DASH /\ t[i + 1] = DASH /\ t[i + 2] = DASH

\* The positions at which `---\s*\n`, begun at i, can end: a "\n" reached from
\* the dashes through whitespace only.
DelimEnds(t, i) ==
    IF ~DashesAt(t, i) THEN {}
    ELSE {e \in (i + 3)..Len(t) :
            /\ t[e] = NL
            /\ \A k \in (i + 3)..e : IsSpace(t[k])}

\* The ends g of group 1, `(.*?\n)` begun at o + 1, after which `^---\s*\n`
\* matches: group 1 is not empty and ends a line.
GroupEnds(t, o) ==
    {g \in (o + 1)..Len(t) : EndsLine(t[g]) /\ DelimEnds(t, g + 1) # {}}

\* The regex with a closing `\s*?` that stops at the first "\n"
RegexMatchLazyClose(t) ==
    LET opens == {o \in DelimEnds(t, 1) : GroupEnds(t, o) # {}}
    IN  IF opens = {} THEN [matched |-> FALSE]
        ELSE LET o == Max(opens)
                 g == Min(GroupEnds(t, o))
             IN  [matched |-> TRUE,
                  group1  |-> SubSeq(t, o + 1, g),
                  end     |-> Min(DelimEnds(t, g + 1))]

\* YAML_FRONT_MATTER_REGEX.match(t), with the backtracking order of re: the
\* opening `\s*` is greedy (the longest run first), `.*?` is lazy (the nearest
\* closing delimiter first) and the closing `\s*` is greedy.
RegexMatch(t) ==
    LET opens == {o \in DelimEnds(t, 1) : GroupEnds(t, o) # {}}
    IN  IF opens = {} THEN [matched |-> FALSE]
        ELSE LET o == Max(opens)
                 g == Min(GroupEnds(t, o))
             IN  [matched |-> TRUE,
                  group1  |-> SubSeq(t, o + 1, g),
                  end     |-> Max(DelimEnds(t, g + 1))]

\* What yaml.safe_load makes of a text:
\*   [kind |-> "map", map |-> m]   a mapping
\*   [kind |-> "other"]            a scalar, a list or None
\*   [kind |-> "YAMLError"]        the parser raises yaml.YAMLError
\*   [kind |-> "ValueError"]       a constructor raises ValueError (a date such
\*                                 as 2023-02-30 resolves as a timestamp and
\*                                 datetime.date refuses it)
\* One block among blank space is that block; blank text is None; plain words
\* are a scalar; a block mixed with words or with another block does not parse.
SafeLoad(s) ==
    LET ys    == {i \in 1..Len(s) : IsYaml(s[i])}
        words == {i \in 1..Len(s) : ~IsYaml(s[i]) /\ ~IsSpace(s[i])}
    IN  IF ys = {} THEN [kind |-> "other"]
        ELSE IF Cardinality(ys) = 1 /\ words = {}
             THEN s[CHOOSE i \in ys : TRUE].yaml
             ELSE [kind |-> "YAMLError"]

NoMeta == <<>>

\* parse_yaml_front_matter: [raised, metadata, content]
parse_yaml_front_matter(t) ==
    LET m == RegexMatch(t)
    IN  IF ~m.matched
        THEN [raised |-> "", metadata |-> NoMeta, content |-> t]
        ELSE LET doc == SafeLoad(m.group1)
             IN  CASE doc.kind = "map" ->
                        [raised |-> "", metadata |-> doc.map, content |-> Drop(t, m.end)]
                   [] doc.kind = "YAMLError" ->
                        [raised |-> "", metadata |-> NoMeta, content |-> t]
                   [] doc.kind = "ValueError" ->
                        [raised |-> "ValueError", metadata |-> NoMeta, content |-> <<>>]
                   [] OTHER ->
                        [raised |-> "", metadata |-> NoMeta, content |-> Drop(t, m.end)]

\* generate_yaml_front_matter, for metadata of strings and lists of strings
\* (yaml.dump represents them all, and none is a datetime)
generate_yaml_front_matter(metadata) ==
    IF DOMAIN metadata = {} THEN <<>>
    ELSE <<DASH, DASH, DASH, NL, Y([kind |-> "map", map |-> metadata]),
           DASH, DASH, DASH, NL>>

-----------------------------------------------------------------------------
(* file_manager.py: the Note Store *)

\* A path is [dir, name]: os.path.join(dir, name); a file name is text.
\* An entry of fs is [kind, text]:
\*   "file"    a regular file holding UTF-8 text, readable and writable
\*   "locked"  a regular file the process may neither read nor write
\*   "binary"  a readable, writable file whose bytes are not UTF-8
\*   "dir"     a directory of that name
File(text) == [kind |-> "file", text |-> text]
Locked == [kind |-> "locked", text |-> <<>>]
Binary == [kind |-> "binary", text |-> <<>>]
SubDir == [kind |-> "dir", text |-> <<>>]

Path(dir, name) == [dir |-> dir, name |-> name]

MD == <<DOT, Ch("m"), Ch("d")>>

\* os.path.splitext, on a file name: the extension starts at the last dot,
\* unless only dots come before it.
Splitext(name) ==
    LET dots == {i \in 1..Len(name) : name[i] = DOT}
    IN  IF dots = {} THEN <<name, <<>>>>
        ELSE LET d == Max(dots)
             IN  IF \E i \in 1..(d - 1) : name[i] # DOT
                 THEN <<SubSeq(name, 1, d - 1), SubSeq(name, d, Len(name))>>
                 ELSE <<name, <<>>>>

\* A glob of "*": every name that does not start with a dot
GlobAnyShown(name) == name[1] # DOT

\* glob's "*.md": the name ends with ".md" and does not start with a dot
\* (glob leaves hidden files out of "*").
GlobMd(name) ==
    /\ Len(name) >= 3
    /\ SubSeq(name, Len(name) - 2, Len(name)) = MD
    /\ name[1] # DOT

Note(filepath, title, tags, created, updated, content) ==
    [filepath |-> filepath, title |-> title, tags |-> tags,
     created |-> created, updated |-> updated, content |-> content]

None == [ok |-> FALSE]
Some(note) == [ok |-> TRUE, note |-> note]

\* A value yaml.safe_load puts into the mapping that is neither a str nor a
\* list is a function on {0}, where a sequence is one on 1..n: the None of
\* an empty value ("tags:") and the int of "title: 2024"
PyNone == 0 :> "None"
PyInt == 0 :> 2024

\* The value is a sequence, a str or a list: a str has lower(), and both can
\* be iterated
IsStr(value) == 0 \notin DOMAIN value

\* dict.get(key, default)
Get(metadata, key, default) ==
    IF key \in DOMAIN metadata THEN metadata[key] ELSE default

\* load_note handing 'updated' to Note as created and 'created' as updated
LoadSwapsTimes(files, filepath, clock) ==
    IF filepath \notin DOMAIN files \/ files[filepath].kind # "file" THEN None
    ELSE LET p == parse_yaml_front_matter(ReadText(files[filepath].text))
         IN  IF p.raised # "" THEN None
             ELSE LET created == Get(p.metadata, "created", clock)
                      updated == Get(p.metadata, "updated", created)
                  IN  Some(Note(filepath,
                                Get(p.metadata, "title", Splitext(filepath.name)[1]),
                                Get(p.metadata, "tags", <<>>),
                                updated, created, p.content))

\* load_note taking 'created' from the clock whatever the file stores
LoadCreatedNow(files, filepath, clock) ==
    IF filepath \notin DOMAIN files \/ files[filepath].kind # "file" THEN None
    ELSE LET p == parse_yaml_front_matter(ReadText(files[filepath].text))
         IN  IF p.raised # "" THEN None
             ELSE Some(Note(filepath,
                            Get(p.metadata, "title", Splitext(filepath.name)[1]),
                            Get(p.metadata, "tags", <<>>),
                            clock,
                            Get(p.metadata, "updated", clock),
                            p.content))

\* load_note with 'updated' defaulting to the clock instead of to 'created'
LoadUpdatedNow(files, filepath, clock) ==
    IF filepath \notin DOMAIN files \/ files[filepath].kind # "file" THEN None
    ELSE LET p == parse_yaml_front_matter(ReadText(files[filepath].text))
         IN  IF p.raised # "" THEN None
             ELSE Some(Note(filepath,
                            Get(p.metadata, "title", Splitext(filepath.name)[1]),
                            Get(p.metadata, "tags", <<>>),
                            Get(p.metadata, "created", clock),
                            Get(p.metadata, "updated", clock),
                            p.content))

\* load_note: Some(note), or None after any exception (the path is missing, is
\* a directory, may not be read, does not decode, or the codec raised)
load_note(files, filepath, clock) ==
    IF filepath \notin DOMAIN files \/ files[filepath].kind # "file" THEN None
    ELSE LET p == parse_yaml_front_matter(ReadText(files[filepath].text))
         IN  IF p.raised # "" THEN None
             ELSE LET title   == Get(p.metadata, "title", Splitext(filepath.name)[1])
                      tags    == Get(p.metadata, "tags", <<>>)
                      created == Get(p.metadata, "created", clock)
                      updated == Get(p.metadata, "updated", created)
                  IN  Some(Note(filepath, title, tags, created, updated, p.content))

\* save_note without the strip of line 75
FileTextUnstripped(note) ==
    generate_yaml_front_matter(
        [title |-> note.title, tags |-> note.tags,
         created |-> note.created, updated |-> note.updated])
    \o <<NL>> \o note.content

\* The text save_note writes
FileText(note) ==
    generate_yaml_front_matter(
        [title |-> note.title, tags |-> note.tags,
         created |-> note.created, updated |-> note.updated])
    \o <<NL>> \o Strip(note.content)

\* A lone surrogate: a character of a str that UTF-8 does not encode
Surrogate == Ch("\\ud800")

\* f.write(text) with encoding='utf-8' encodes the text
Encodable(text) == \A i \in 1..Len(text) : text[i] # Surrogate

\* save_note that sets note.updated to the time of the save
SaveBumpsUpdated(files, folders, note) ==
    LET p == note.filepath
        bumped == [note EXCEPT !.updated = note.updated + 1]
    IN  IF p.dir = ""
        THEN [ret |-> FALSE, fs |-> files, dirs |-> folders, note |-> note]
        ELSE IF p \in DOMAIN files /\ files[p].kind \in {"dir", "locked"}
             THEN [ret |-> FALSE, fs |-> files, dirs |-> folders \cup {p.dir},
                   note |-> note]
             ELSE IF ~Encodable(FileText(bumped))
                  THEN [ret |-> FALSE,
                        fs |-> [q \in DOMAIN files \cup {p} |->
                                  IF q = p THEN File(<<>>) ELSE files[q]],
                        dirs |-> folders \cup {p.dir}, note |-> bumped]
                  ELSE [ret  |-> TRUE,
                        fs   |-> [q \in DOMAIN files \cup {p} |->
                                    IF q = p THEN File(FileText(bumped)) ELSE files[q]],
                        dirs |-> folders \cup {p.dir}, note |-> bumped]

\* save_note: [ret, fs, dirs, note], note being the Note object as the call
\* leaves it (no statement of save_note assigns to it).  os.makedirs("")
\* raises; open(..., 'w') raises on a directory and on a file that may not be
\* written; open(..., 'w') of any other path creates or empties the file, and
\* f.write then raises UnicodeEncodeError on a text that does not encode, the
\* file staying empty; every exception is caught and answered False.
save_note(files, folders, note) ==
    LET p == note.filepath
    IN  IF p.dir = ""
        THEN [ret |-> FALSE, fs |-> files, dirs |-> folders, note |-> note]
        ELSE IF p \in DOMAIN files /\ files[p].kind \in {"dir", "locked"}
             THEN [ret |-> FALSE, fs |-> files, dirs |-> folders \cup {p.dir},
                   note |-> note]
             ELSE IF ~Encodable(FileText(note))
                  THEN [ret |-> FALSE,
                        fs |-> [q \in DOMAIN files \cup {p} |->
                                  IF q = p THEN File(<<>>) ELSE files[q]],
                        dirs |-> folders \cup {p.dir}, note |-> note]
                  ELSE [ret  |-> TRUE,
                        fs   |-> [q \in DOMAIN files \cup {p} |->
                                    IF q = p THEN File(FileText(note)) ELSE files[q]],
                        dirs |-> folders \cup {p.dir}, note |-> note]

\* delete_note_file removing every file of the folder along with the one named
DeleteClearsFolder(files, filepath) ==
    IF filepath \notin DOMAIN files \/ files[filepath].kind = "dir"
    THEN [raised |-> "", ret |-> FALSE, fs |-> files]
    ELSE [raised |-> "", ret |-> TRUE,
          fs |-> [q \in {q \in DOMAIN files : q.dir # filepath.dir} |-> files[q]]]

\* delete_note_file answering True when there is nothing to delete
DeleteAnswersTrue(files, filepath) ==
    IF filepath \in DOMAIN files /\ files[filepath].kind = "dir"
    THEN [raised |-> "", ret |-> FALSE, fs |-> files]
    ELSE [raised |-> "", ret |-> TRUE,
          fs |-> [q \in DOMAIN files \ {filepath} |-> files[q]]]

\* delete_note_file: [raised, ret, fs].  os.remove of a directory raises; the
\* try holds the whole body, so the exception is answered False, like a path
\* that does not exist.
delete_note_file(files, filepath) ==
    IF filepath \notin DOMAIN files
    THEN [raised |-> "", ret |-> FALSE, fs |-> files]
    ELSE IF files[filepath].kind = "dir"
         THEN [raised |-> "", ret |-> FALSE, fs |-> files]
         ELSE [raised |-> "", ret |-> TRUE,
               fs |-> [q \in DOMAIN files \ {filepath} |-> files[q]]]

\* The orders in which glob may list a set of paths
Orders(S) ==
    {f \in [1..Cardinality(S) -> S] : \A i, j \in 1..Cardinality(S) : f[i] = f[j] => i = j}

\* The loop of scan_notes_directory giving up at the first file that fails
RECURSIVE LoadAllAbort(_, _, _)
LoadAllAbort(files, listing, clock) ==
    IF listing = <<>> THEN <<>>
    ELSE LET r == load_note(files, Head(listing), clock)
         IN  IF r.ok THEN <<r.note>> \o LoadAllAbort(files, Tail(listing), clock)
             ELSE <<>>

RECURSIVE LoadAll(_, _, _)
LoadAll(files, listing, clock) ==
    IF listing = <<>> THEN <<>>
    ELSE LET r == load_note(files, Head(listing), clock)
         IN  (IF r.ok THEN <<r.note>> ELSE <<>>) \o LoadAll(files, Tail(listing), clock)

\* scan_notes_directory answering a missing folder with a list of one None
ScanFlagsMissing(files, folders, notes_dir, listing, clock) ==
    IF notes_dir \notin folders THEN <<None>> ELSE LoadAll(files, listing, clock)

\* scan_notes_directory, for one order of the listing
scan_notes_directory(files, folders, notes_dir, listing, clock) ==
    IF notes_dir \notin folders THEN <<>> ELSE LoadAll(files, listing, clock)

\* Listings in which glob may name a path more than once
ListingsWithRepeats(files, notes_dir) ==
    LET S == {p \in DOMAIN files : p.dir = notes_dir /\ GlobMd(p.name)}
    IN  UNION {[1..n -> S] : n \in 0..2}

\* The listings glob.glob(notes_dir/*.md) may return
Listings(files, notes_dir) ==
    Orders({p \in DOMAIN files : p.dir = notes_dir /\ GlobMd(p.name)})

\* Line 87 of file_manager.py: title.lower().replace(' ', '_') is a str, and a
\* str has no attribute Gsub, so the line raises AttributeError whatever the
\* title is; it stands outside any try.
Slugify(title) == [raised |-> "AttributeError"]

DigitCh == <<Ch("0"), Ch("1"), Ch("2"), Ch("3"), Ch("4"),
             Ch("5"), Ch("6"), Ch("7"), Ch("8"), Ch("9")>>

\* str(n), n >= 0
RECURSIVE Decimal(_)
Decimal(n) ==
    IF n < 10 THEN <<DigitCh[n + 1]>>
    ELSE Decimal(n \div 10) \o <<DigitCh[(n % 10) + 1]>>

\* Lines 94-98: the first of base.ext, base_1.ext, base_2.ext, ... that does
\* not exist
RECURSIVE FreePath(_, _, _, _, _, _)
FreePath(files, notes_dir, base, ext, name, counter) ==
    IF Path(notes_dir, name) \in DOMAIN files
    THEN FreePath(files, notes_dir, base, ext,
                  base \o <<USCORE>> \o Decimal(counter) \o ext, counter + 1)
    ELSE Path(notes_dir, name)

\* Lines 88-111 of create_new_note, for the file name line 87 produced
CreateNamed(files, folders, notes_dir, name, title, tags, content, clock) ==
    LET filename == IF Strip(name) = <<>> \/ name = MD
                    THEN <<Ch("u"), Ch("n"), Ch("t"), Ch("i"), Ch("t"), Ch("l"),
                           Ch("e"), Ch("d"), USCORE>> \o Decimal(clock) \o MD
                    ELSE name
        parts == Splitext(filename)
        filepath == FreePath(files, notes_dir, parts[1], parts[2], filename, 1)
        note == Note(filepath, title, tags, clock, clock, content)
        s == save_note(files, folders, note)
    IN  [raised |-> "", ret |-> IF s.ret THEN Some(note) ELSE None,
         fs |-> s.fs, dirs |-> s.dirs]

\* create_new_note: [raised, ret, fs, dirs]
create_new_note(files, folders, notes_dir, title, tags, content, clock) ==
    LET slug == Slugify(title)
    IN  IF slug.raised # ""
        THEN [raised |-> slug.raised, ret |-> None, fs |-> files, dirs |-> folders]
        ELSE CreateNamed(files, folders, notes_dir, slug.value \o MD,
                         title, tags, content, clock)

-----------------------------------------------------------------------------
(* The bounds of the model, and the inputs drawn within them *)

MaxClock == 2      \* the clock runs from 1 to MaxClock
MaxFiles == 2      \* entries in the file system at a time

NotesDir == "notes"

NameA == <<Ch("a")>> \o MD
NameB == <<Ch("b")>> \o MD
NameHidden == <<DOT, Ch("h")>> \o MD
NameTxt == <<Ch("n"), DOT, Ch("t"), Ch("x"), Ch("t")>>

Names == {NameA, NameB, NameHidden, NameTxt}

Paths == {Path(NotesDir, n) : n \in Names}

TitleA == <<Ch("a")>>
TitleAB == <<Ch("A"), SP, Ch("b")>>

Dashes == <<DASH, DASH, DASH>>

\* Files put into the notes folder from outside the program
ExternalEntries ==
    { File(<<Ch("a"), NL, Ch("b")>>),
      File(<<Ch("a"), CR, NL, Ch("b")>>),
      File(Dashes \o <<NL, Y([kind |-> "map", map |-> [title |-> TitleAB]])>>
           \o Dashes \o <<NL, Ch("b")>>),
      File(Dashes \o <<NL, Y([kind |-> "map",
                              map |-> [tags |-> <<TitleA>>, created |-> 1]])>>
           \o Dashes \o <<NL, Ch("b")>>),
      File(Dashes \o <<NL, Y([kind |-> "map",
                              map |-> [title |-> TitleA, tags |-> <<TitleA>>,
                                       created |-> 1, updated |-> 2]])>>
           \o Dashes \o <<NL, NL, Ch("b")>>),
      File(Dashes \o <<NL, Y([kind |-> "map",
                              map |-> [title |-> TitleA, updated |-> 1]])>>
           \o Dashes \o <<NL, Ch("b")>>),
      File(Dashes \o <<NL, Y([kind |-> "YAMLError"])>> \o Dashes \o <<NL, Ch("b")>>),
      File(Dashes \o <<NL, Y([kind |-> "other"])>> \o Dashes \o <<NL, Ch("b")>>),
      File(Dashes \o <<NL, Y([kind |-> "ValueError"])>> \o Dashes \o <<NL, Ch("b")>>),
      Locked, Binary, SubDir }

\* The Notes the caller hands to save_note
SaveInputs ==
    { Note(Path(NotesDir, NameA), TitleA, <<>>, 1, 1, <<Ch("a")>>),
      Note(Path(NotesDir, NameA), TitleAB, <<TitleA>>, 1, 2, <<SP, Ch("a"), NL>>),
      Note(Path(NotesDir, NameB), TitleA, <<TitleA, TitleAB>>, 2, 2, <<Ch("a"), CR, Ch("b")>>),
      Note(Path(NotesDir, NameB), TitleAB, <<>>, 1, 1, <<>>),
      Note(Path("new", NameA), TitleA, <<>>, 1, 1, <<Ch("a"), NL, Ch("b")>>),
      Note(Path("", NameA), TitleA, <<>>, 1, 1, <<Ch("a")>>),
      Note(Path(NotesDir, NameA), TitleA, <<>>, 1, 1, <<Ch("a"), Surrogate>>) }

LoadPaths == Paths \cup {Path("new", NameA)}

-----------------------------------------------------------------------------
(* The Note Store as a state machine: one action per call *)

NoSaved == [some |-> FALSE]

\* None where a file path is expected
NoPath == Path("", <<>>)

\* What the handlers of one event did: whether the unsaved-changes prompt was
\* shown, the note whose typed text was dropped from the editor, the notes
\* whose 'updated' was set, the note whose edits had started the timer that
\* ran out, and whether filter_notes_list ran (and with which tag)
NoEvent(op) ==
    [op |-> op, prompted |-> FALSE, lost |-> NoPath, bumped |-> {},
     timer_by |-> NoPath, filter |-> [ran |-> FALSE]]

\* The fields of MainWindow and of its widgets before __init__ has run.  typed
\* is the open note while the editor holds text typed and not written to its
\* file; timer_by is the note that was open when typing started the timer;
\* events counts the events handled.
NoWindow ==
    [started |-> FALSE, raised |-> "", notes_list_data |-> <<>>,
     current_note_filepath |-> NoPath, unsaved_changes |-> FALSE,
     text |-> <<>>, timer |-> FALSE, query |-> <<>>,
     tags_panel |-> <<>>, tag_item |-> [kind |-> "none"],
     shown |-> <<>>, selected |-> NoPath,
     typed |-> NoPath, timer_by |-> NoPath, ev |-> NoEvent("none"), events |-> 0]

InitIndex ==
    /\ heap = <<>>
    /\ notes_data = <<>>
    /\ built = <<>>
    /\ edits = 0
    /\ answer = [op |-> "none"]

Init ==
    /\ fs = <<>>
    /\ dirs = {NotesDir}
    /\ now = 1
    /\ last = [op |-> "init"]
    /\ saved = NoSaved
    /\ InitIndex
    /\ win = NoWindow

indexVars == <<heap, notes_data, built, edits, answer>>

Tick ==
    /\ now < MaxClock
    /\ now' = now + 1
    /\ UNCHANGED <<fs, dirs, last, saved, indexVars, win>>

\* A file is put into the notes folder from outside.  The program has the
\* folder to itself while it runs (spec section 5), so the outside content is in
\* place before the first call.
ExternalWrite ==
    \E p \in Paths, e \in ExternalEntries :
        /\ last.op \in {"init", "external"}
        /\ Cardinality(DOMAIN fs \cup {p}) <= MaxFiles
        /\ fs' = [q \in DOMAIN fs \cup {p} |-> IF q = p THEN e ELSE fs[q]]
        /\ last' = [op |-> "external"]
        /\ saved' = NoSaved
        /\ UNCHANGED <<dirs, now, indexVars, win>>

Save ==
    \E note \in SaveInputs :
        LET r == save_note(fs, dirs, note)
        IN  /\ Cardinality(DOMAIN r.fs) <= MaxFiles
            /\ fs' = r.fs
            /\ dirs' = r.dirs
            /\ last' = [op |-> "save", note |-> note, ret |-> r.ret, pre |-> fs,
                        after |-> r.note]
            /\ saved' = IF r.ret THEN [some |-> TRUE, note |-> note]
                        ELSE IF r.fs = fs THEN saved ELSE NoSaved
            /\ UNCHANGED <<now, indexVars, win>>

Load ==
    \E p \in LoadPaths :
        /\ last' = [op |-> "load", filepath |-> p, ret |-> load_note(fs, p, now),
                    at |-> now, pre |-> fs]
        /\ UNCHANGED <<fs, dirs, now, saved, indexVars, win>>

Scan ==
    \E d \in {NotesDir, "new", "gone"} :
        \E listing \in Listings(fs, d) :
            /\ last' = [op |-> "scan", notes_dir |-> d, listing |-> listing,
                        ret |-> scan_notes_directory(fs, dirs, d, listing, now),
                        at |-> now, pre |-> fs]
            /\ UNCHANGED <<fs, dirs, now, saved, indexVars, win>>

Create ==
    \E title \in {TitleA, TitleAB}, content \in {<<>>, <<Ch("a")>>} :
        LET r == create_new_note(fs, dirs, NotesDir, title, <<>>, content, now)
        IN  /\ Cardinality(DOMAIN r.fs) <= MaxFiles
            /\ fs' = r.fs
            /\ dirs' = r.dirs
            /\ last' = [op |-> "create", notes_dir |-> NotesDir, title |-> title,
                        tags |-> <<>>, content |-> content, raised |-> r.raised,
                        ret |-> r.ret, at |-> now, pre |-> fs,
                        before |-> IF last.op = "create"
                                   THEN [some |-> TRUE, title |-> last.title,
                                         raised |-> last.raised, ret |-> last.ret]
                                   ELSE [some |-> FALSE]]
            /\ saved' = IF r.fs = fs THEN saved ELSE NoSaved
            /\ UNCHANGED <<now, indexVars, win>>

Delete ==
    \E p \in Paths :
        LET r == delete_note_file(fs, p)
        IN  /\ fs' = r.fs
            /\ last' = [op |-> "delete", filepath |-> p, raised |-> r.raised,
                        ret |-> r.ret, pre |-> fs]
            /\ saved' = IF r.fs = fs THEN saved ELSE NoSaved
            /\ UNCHANGED <<dirs, now, indexVars, win>>

Next == Tick \/ ExternalWrite \/ Save \/ Load \/ Scan \/ Create \/ Delete

Spec == Init /\ [][Next]_vars

-----------------------------------------------------------------------------
(* search.py: the Search Index *)

\* A Note object is named by its filepath; heap holds the objects' fields, and
\* 'original_note' in an index entry is a reference into heap.

\* str.split(): the maximal runs of non-space characters
RECURSIVE Split(_)
Split(s) ==
    LET starts == {i \in 1..Len(s) : ~IsSpace(s[i])}
    IN  IF starts = {} THEN <<>>
        ELSE LET b == Min(starts)
                 stops == {i \in b..Len(s) : IsSpace(s[i])}
                 e == IF stops = {} THEN Len(s) ELSE Min(stops) - 1
             IN  <<SubSeq(s, b, e)>> \o Split(Drop(s, e))

\* " ".join(list)
RECURSIVE Join(_)
Join(parts) ==
    IF parts = <<>> THEN <<>>
    ELSE IF Len(parts) = 1 THEN parts[1]
    ELSE parts[1] \o <<SP>> \o Join(Tail(parts))

\* term in text
Contains(text, term) ==
    \E i \in 1..(Len(text) - Len(term) + 1) : SubSeq(text, i, i + Len(term) - 1) = term

\* The code point of a character of the model
Ord(x) ==
    CASE x = NL -> 10
      [] x = CR -> 13
      [] x = SP -> 32
      [] x = DASH -> 45
      [] x = DOT -> 46
      [] x = Ch("A") -> 65
      [] x = Ch("B") -> 66
      [] x = USCORE -> 95
      [] x = Ch("a") -> 97
      [] x = Ch("b") -> 98
      [] OTHER -> 120

\* s < t for two strings, as Python compares them
StrLess(s, t) ==
    \E k \in 1..(Len(t)) :
        /\ k <= Len(s) + 1
        /\ \A j \in 1..(k - 1) : s[j] = t[j]
        /\ (k = Len(s) + 1 \/ Ord(s[k]) < Ord(t[k]))

\* sorted(list(S)) for a set of strings
RECURSIVE Sorted(_)
Sorted(S) ==
    IF S = {} THEN <<>>
    ELSE LET least == CHOOSE x \in S : \A y \in S \ {x} : StrLess(x, y)
         IN  <<least>> \o Sorted(S \ {least})

\* The entry build_index makes of a note
IndexEntry(objects, id) ==
    [id |-> objects[id].filepath,
     title |-> Lower(objects[id].title),
     tags |-> [i \in 1..Len(objects[id].tags) |-> Lower(objects[id].tags[i])],
     content |-> Lower(objects[id].content),
     original_note |-> id]

\* build_index without the reset of line 14: the entries are appended to
\* those the index holds
BuildAppends(objects, notes) ==
    notes_data \o [i \in 1..Len(notes) |-> IndexEntry(objects, notes[i])]

\* build_index: the new notes_data, begun from the empty list of line 14
build_index(objects, notes) ==
    <<>> \o [i \in 1..Len(notes) |-> IndexEntry(objects, notes[i])]

Originals(index) == [i \in 1..Len(index) |-> index[i].original_note]

\* The text one entry is searched in
CombinedText(item, search_title, search_tags, search_content) ==
    Join((IF search_title THEN <<item.title>> ELSE <<>>)
         \o (IF search_tags THEN item.tags ELSE <<>>)
         \o (IF search_content THEN <<item.content>> ELSE <<>>))

\* A match on any one term instead of on all of them
AnyTermMatches(item, query_terms, search_title, search_tags, search_content) ==
    \E k \in 1..Len(query_terms) :
        Contains(CombinedText(item, search_title, search_tags, search_content),
                 query_terms[k])

AllTermsMatch(item, query_terms, search_title, search_tags, search_content) ==
    \A k \in 1..Len(query_terms) :
        Contains(CombinedText(item, search_title, search_tags, search_content),
                 query_terms[k])

\* The loop of search without the seen_filepaths test of line 73
RECURSIVE SearchLoopKeepsRepeats(_, _, _, _, _, _)
SearchLoopKeepsRepeats(index, n, query_terms, search_title, search_tags, search_content) ==
    IF n = 0 THEN <<>>
    ELSE LET before == SearchLoopKeepsRepeats(index, n - 1, query_terms,
                                              search_title, search_tags, search_content)
         IN  IF AllTermsMatch(index[n], query_terms, search_title,
                              search_tags, search_content)
             THEN Append(before, index[n].original_note)
             ELSE before

\* The loop of search over index[1..n]: the results so far
RECURSIVE SearchLoop(_, _, _, _, _, _)
SearchLoop(index, n, query_terms, search_title, search_tags, search_content) ==
    IF n = 0 THEN <<>>
    ELSE LET before == SearchLoop(index, n - 1, query_terms,
                                  search_title, search_tags, search_content)
             seen_filepaths == {index[j].id : j \in
                                  {j \in 1..(n - 1) :
                                     AllTermsMatch(index[j], query_terms, search_title,
                                                   search_tags, search_content)}}
         IN  IF /\ AllTermsMatch(index[n], query_terms, search_title,
                                 search_tags, search_content)
                /\ index[n].id \notin seen_filepaths
             THEN Append(before, index[n].original_note)
             ELSE before

\* search without the early return of lines 35-37
SearchAlwaysLoops(index, query, search_title, search_tags, search_content) ==
    SearchLoop(index, Len(index), Split(Lower(query)),
               search_title, search_tags, search_content)

\* SearchIndex.search
search(index, query, search_title, search_tags, search_content) ==
    IF Strip(query) = <<>> THEN Originals(index)
    ELSE SearchLoop(index, Len(index), Split(Lower(query)),
                    search_title, search_tags, search_content)

InSeq(x, s) == \E i \in 1..Len(s) : s[i] = x

\* filter_by_tag comparing the tag as given, not lower-cased
FilterCaseSensitive(index, tag) ==
    IF Strip(tag) = <<>> THEN Originals(index)
    ELSE LET hits == SelectSeq(index, LAMBDA item : InSeq(tag, item.tags))
         IN  Originals(hits)

\* SearchIndex.filter_by_tag
filter_by_tag(index, tag) ==
    IF Strip(tag) = <<>> THEN Originals(index)
    ELSE LET hits == SelectSeq(index, LAMBDA item : InSeq(Lower(tag), item.tags))
         IN  Originals(hits)

\* get_all_tags collecting the lower-cased tags of the index entries
GetAllTagsLowered(index, objects) ==
    Sorted(UNION {{index[i].tags[k] : k \in 1..Len(index[i].tags)} :
                  i \in 1..Len(index)})

\* SearchIndex.get_all_tags: it reads the tags of the Note objects themselves
get_all_tags(index, objects) ==
    Sorted(UNION {{objects[index[i].original_note].tags[k] :
                      k \in 1..Len(objects[index[i].original_note].tags)} :
                  i \in 1..Len(index)})

-----------------------------------------------------------------------------
(* The Search Index as a state machine *)

MaxList == 2       \* notes in the list handed to build_index
MaxEdits == 1      \* changes the caller makes to the fields of its Note objects

IdA == Path(NotesDir, NameA)
IdB == Path(NotesDir, NameB)
IndexIds == {IdA, IdB}

TagA == <<Ch("a")>>
TagB == <<Ch("B")>>
TagLowB == <<Ch("b")>>

IndexTitles == {TitleA, TitleAB}
IndexTags == {<<>>, <<TagB>>, <<TagA, TagLowB>>, <<TitleAB>>}
IndexContents == {<<>>, <<Ch("b"), NL, Ch("A")>>}

Queries ==
    { <<Ch("a")>>, <<Ch("B")>>, <<Ch("b"), SP, SP, Ch("A")>>,
      <<Ch("a"), Ch("b")>>, <<SP>>, <<>> }

TagQueries == {TagA, TagB, <<Ch("A"), SP, Ch("b")>>, <<SP>>}

NoteLists == UNION {[1..n -> IndexIds] : n \in 0..MaxList}

StoreIdle ==
    /\ fs = <<>>
    /\ dirs = {NotesDir}
    /\ now = 1
    /\ last = [op |-> "init"]
    /\ saved = NoSaved

storeVars == <<fs, dirs, now, last, saved>>

IndexNotes(id) ==
    {Note(id, title, tags, 1, 1, content) :
        title \in IndexTitles, tags \in IndexTags, content \in IndexContents}

\* The caller holds one Note object per path
Heaps == {h \in [IndexIds -> UNION {IndexNotes(id) : id \in IndexIds}] :
            \A id \in IndexIds : h[id].filepath = id}

InitI ==
    /\ StoreIdle
    /\ win = NoWindow
    /\ heap \in Heaps
    /\ notes_data = <<>>
    /\ built = heap
    /\ edits = 0
    /\ answer = [op |-> "none"]

Build ==
    \E notes \in NoteLists :
        /\ notes_data' = build_index(heap, notes)
        /\ built' = heap
        /\ answer' = [op |-> "build", notes |-> notes,
                      had |-> {notes_data[i].original_note : i \in 1..Len(notes_data)}]
        /\ UNCHANGED <<heap, edits, storeVars, win>>

\* A query changes nothing but answer, so it is asked in the states build_index
\* or the caller's edit left: asking it after another query reaches no new state.
Queried == answer.op \in {"search", "filter_by_tag", "get_all_tags"}

Search ==
    \E query \in Queries, search_title, search_tags, search_content \in BOOLEAN :
        /\ ~Queried
        /\ answer' = [op |-> "search", query |-> query, search_title |-> search_title,
                      search_tags |-> search_tags, search_content |-> search_content,
                      ret |-> search(notes_data, query, search_title, search_tags,
                                     search_content)]
        /\ UNCHANGED <<heap, notes_data, built, edits, storeVars, win>>

FilterByTag ==
    \E tag \in TagQueries :
        /\ ~Queried
        /\ answer' = [op |-> "filter_by_tag", tag |-> tag,
                      ret |-> filter_by_tag(notes_data, tag)]
        /\ UNCHANGED <<heap, notes_data, built, edits, storeVars, win>>

GetAllTags ==
    /\ ~Queried
    /\ answer' = [op |-> "get_all_tags", ret |-> get_all_tags(notes_data, heap)]
    /\ UNCHANGED <<heap, notes_data, built, edits, storeVars, win>>

\* The caller assigns a field of a Note object it holds (note.title = ...,
\* note.tags = ..., note.content = ...); the host window assigns note.content
\* when it saves (gui_main.py, save_current_note)
EditNote ==
    \E id \in IndexIds, field \in {"title", "tags", "content"} :
        \E value \in (CASE field = "title" -> IndexTitles
                        [] field = "tags" -> IndexTags
                        [] OTHER -> IndexContents) :
            /\ edits < MaxEdits
            /\ heap[id][field] # value
            /\ heap' = [heap EXCEPT ![id][field] = value]
            /\ edits' = edits + 1
            /\ answer' = [op |-> "edit", id |-> id, field |-> field]
            /\ UNCHANGED <<notes_data, built, storeVars, win>>

NextI == Build \/ Search \/ FilterByTag \/ GetAllTags

SpecIndex == InitI /\ [][NextI]_vars

\* The same index with a caller that changes its Note objects between builds
InitE ==
    /\ InitI
    /\ heap[IdA].title = TitleAB /\ heap[IdA].content = <<>>
    /\ heap[IdB].title = TitleA /\ heap[IdB].tags = <<TagA, TagLowB>>

NextE == NextI \/ EditNote

SpecEdit == InitE /\ [][NextE]_vars

-----------------------------------------------------------------------------
(* The host window (gui_main.py, with the editor's timer of editor.py) as a  *)
(* state machine: one action per user event or timer event, each running the *)
(* whole chain of handlers the event sets off.                               *)

MaxText == 2       \* characters in the editor
MaxEvents == 6     \* events the window handles

\* settings.py, DEFAULT_SETTINGS["auto_save_interval"]
AutoSaveInterval == 2000

\* A note is an object the search index can take when title.lower(), the
\* iteration of tags with tag.lower(), and content.lower() all work
Indexable(note) ==
    /\ IsStr(note.title)
    /\ IsStr(note.tags)
    /\ \A k \in 1..Len(note.tags) : IsStr(note.tags[k])
    /\ IsStr(note.content)

\* build_index on notes that may hold values of any type: the loop stops at
\* the first note whose fields are not what lines 21-23 need, after line 14
\* emptied the index and the earlier notes were appended
BuildOrRaise(objects, notes) ==
    LET bad == {i \in 1..Len(notes) : ~Indexable(objects[notes[i]])}
    IN  IF bad = {} THEN [raised |-> "", notes_data |-> build_index(objects, notes)]
        ELSE LET note == objects[notes[Min(bad)]]
             IN  [raised |-> IF ~IsStr(note.title) THEN "AttributeError"
                             ELSE IF ~IsStr(note.tags) THEN "TypeError"
                             ELSE "AttributeError",
                  notes_data |-> build_index(objects, SubSeq(notes, 1, Min(bad) - 1))]

\* The sort key (n.updated or n.created or "") is n.updated: the time stamps
\* of the model are positive, so updated is never falsy
RECURSIVE InsertByDate(_, _, _)
InsertByDate(objects, sorted, id) ==
    IF sorted = <<>> THEN <<id>>
    ELSE IF objects[Head(sorted)].updated >= objects[id].updated
         THEN <<Head(sorted)>> \o InsertByDate(objects, Tail(sorted), id)
         ELSE <<id>> \o sorted

\* list.sort(key=..., reverse=True): stable, newest first
RECURSIVE SortByDate(_, _)
SortByDate(objects, notes) ==
    IF notes = <<>> THEN <<>>
    ELSE InsertByDate(objects, SortByDate(objects, SubSeq(notes, 1, Len(notes) - 1)),
                      notes[Len(notes)])

\* The tag filter_notes_list reads from the tag panel: the data of its current
\* item, None (here <<>>, as falsy as "") unless the item is a tag
TagFilter(w) == IF w.tag_item.kind = "tag" THEN w.tag_item.tag ELSE <<>>

\* Lines 407-433 of filter_notes_list: the notes it hands to the display
FilteredNotes(index, objects, notes, query, tag_filter) ==
    LET notes_to_filter == IF tag_filter # <<>> THEN filter_by_tag(index, tag_filter)
                           ELSE notes
        final == IF Strip(query) # <<>>
                 THEN LET found == search(index, query, TRUE, TRUE, TRUE)
                          paths == {objects[found[i]].filepath : i \in 1..Len(found)}
                      IN  SelectSeq(notes_to_filter,
                                    LAMBDA id : objects[id].filepath \in paths)
                 ELSE notes_to_filter
    IN  SortByDate(objects, final)

\* The file paths the items of the list widget carry
ItemPaths(objects, notes) == [i \in 1..Len(notes) |-> objects[notes[i]].filepath]

\* _find_note_by_filepath: the Note object, NoPath for None
Find(w, filepath) ==
    LET L == w.win.notes_list_data
        S == {i \in 1..Len(L) : w.heap[L[i]].filepath = filepath}
    IN  IF S = {} THEN NoPath ELSE L[Min(S)]

\* The text in the editor is replaced: what was typed and not written is gone
Replaced(w) ==
    [w EXCEPT !.win.ev.lost = IF w.win.typed # NoPath THEN w.win.typed ELSE @,
              !.win.typed = NoPath]

\* MarkdownEditor.clear: QTextEdit.clear() emits textChanged, its signals not
\* being blocked, and on_text_changed restarts the timer
EditorClear(w) ==
    [w EXCEPT !.win.text = <<>>, !.win.timer = TRUE, !.win.timer_by = NoPath]

clear_editor_and_preview(w) ==
    [EditorClear(Replaced(w)) EXCEPT !.win.current_note_filepath = NoPath,
                                     !.win.unsaved_changes = FALSE]

\* set_markdown_text blocks the signals of the input: the timer is neither
\* started nor stopped
load_note_into_editor(w, id) ==
    [Replaced(w) EXCEPT !.win.current_note_filepath = w.heap[id].filepath,
                        !.win.text = w.heap[id].content,
                        !.win.unsaved_changes = FALSE]

\* update_tag_filter_panel: the panel lists get_all_tags(); a tag that was
\* current is current again if it is still listed, "All Notes" becomes
\* current only when no item was
update_tag_filter_panel(w) ==
    LET all_tags == get_all_tags(w.notes_data, w.heap)
        was == w.win.tag_item
    IN  [w EXCEPT !.win.tags_panel = all_tags,
                  !.win.tag_item =
                      IF all_tags = <<>> THEN [kind |-> "none"]
                      ELSE IF was.kind = "tag" /\ InSeq(was.tag, all_tags)
                                /\ was.tag # <<>> THEN was
                      ELSE IF was.kind = "none" \/ (was.kind = "tag" /\ was.tag = <<>>)
                           THEN [kind |-> "all"]
                      ELSE [kind |-> "none"]]

RECURSIVE update_note_list_display(_, _, _)
RECURSIVE on_note_selected(_, _, _)
RECURSIVE check_unsaved_changes(_, _)
RECURSIVE save_current_note(_, _, _)
RECURSIVE filter_notes_list(_, _)

\* Lines 368-374 of update_note_list_display: the item of the current note,
\* if the list shows it, is made current, which emits currentItemChanged
Reselect(w, in) ==
    IF w.win.current_note_filepath # NoPath
       /\ InSeq(w.win.current_note_filepath, w.win.shown)
    THEN on_note_selected([w EXCEPT !.win.selected = w.win.current_note_filepath],
                          w.win.current_note_filepath, in)
    ELSE w

\* update_note_list_display: the widget is refilled with its signals blocked,
\* which leaves it without a current item, then the current note is reselected
update_note_list_display(w, display_list, in) ==
    Reselect([w EXCEPT !.win.shown = ItemPaths(w.heap, display_list),
                       !.win.selected = NoPath],
             in)

filter_notes_list(w, in) ==
    update_note_list_display(
        [w EXCEPT !.win.ev.filter = [ran |-> TRUE, tag |-> TagFilter(w.win)]],
        FilteredNotes(w.notes_data, w.heap, w.win.notes_list_data,
                      w.win.query, TagFilter(w.win)),
        in)

\* Lines 458-476 of on_note_selected, check_unsaved_changes having answered c.
\* The return of line 463 is taken only when there is no item: after Cancel,
\* or after a save that failed, a chosen note is loaded all the same.
SelectedAfterCheck(c, item) ==
    IF c.cancel /\ item = NoPath THEN c.w
    ELSE IF item # NoPath /\ Find(c.w, item) # NoPath
         THEN load_note_into_editor(c.w, Find(c.w, item))
    ELSE clear_editor_and_preview(c.w)

\* on_note_selected for the item that became current (NoPath: no item)
on_note_selected(w, item, in) ==
    SelectedAfterCheck(check_unsaved_changes(w, in), item)

\* Lines 699-700: a save that failed counts as Cancel
SaveAnswer(s) == [w |-> s.w, cancel |-> ~s.ret]

\* The unsaved-changes prompt is shown
Prompted(w) == [w EXCEPT !.win.ev.prompted = TRUE]

\* check_unsaved_changes: [w, cancel]
check_unsaved_changes(w, in) ==
    IF w.win.unsaved_changes /\ w.win.current_note_filepath # NoPath
    THEN IF in.reply = "Save"
         THEN SaveAnswer(save_current_note(Prompted(w), FALSE, in))
         ELSE [w |-> Prompted(w), cancel |-> in.reply = "Cancel"]
    ELSE [w |-> w, cancel |-> FALSE]

\* Lines 529-540 of save_current_note, save_note having answered r for the
\* Note object id, whose content and 'updated' lines 526-527 have set
SaveWritten(w, id, r, in) ==
    IF r.ret
    THEN [w |-> filter_notes_list(
                    [w EXCEPT !.fs = r.fs, !.dirs = r.dirs,
                              !.win.unsaved_changes = FALSE,
                              !.win.typed = IF @ = w.heap[id].filepath
                                            THEN NoPath ELSE @,
                              !.win.notes_list_data = SortByDate(w.heap, @)],
                    in),
          ret |-> TRUE]
    ELSE [w |-> [w EXCEPT !.fs = r.fs, !.dirs = r.dirs], ret |-> FALSE]

\* Lines 526-529 of save_current_note
SaveEdited(w, id, in) ==
    SaveWritten([w EXCEPT !.win.ev.bumped = @ \cup {w.heap[id].filepath}],
                id, save_note(w.fs, w.dirs, w.heap[id]), in)

\* Lines 514-527 of save_current_note, for what _find_note_by_filepath found
SaveFound(w, id, auto_save, in) ==
    IF w.win.current_note_filepath = NoPath \/ id = NoPath
    THEN [w |-> w, ret |-> FALSE]
    ELSE IF w.heap[id].content = w.win.text /\ ~auto_save /\ ~w.win.unsaved_changes
         THEN [w |-> w, ret |-> TRUE]
         ELSE SaveEdited([w EXCEPT !.heap[id].content = w.win.text,
                                   !.heap[id].updated = in.clock],
                         id, in)

\* save_current_note: [w, ret]
save_current_note(w, auto_save, in) ==
    SaveFound(w, Find(w, w.win.current_note_filepath), auto_save, in)

on_editor_content_changed(w, in) ==
    IF w.win.current_note_filepath = NoPath THEN w
    ELSE IF AutoSaveInterval > 0
         THEN save_current_note([w EXCEPT !.win.unsaved_changes = TRUE], TRUE, in).w
         ELSE [w EXCEPT !.win.unsaved_changes = TRUE]

\* The Note objects of a scan, by their paths
NoteObjects(found) ==
    [p \in {found[i].filepath : i \in 1..Len(found)} |->
        found[CHOOSE i \in 1..Len(found) : found[i].filepath = p]]

\* Lines 330-331 of load_initial_notes: the notes found, newest first
ListNotes(w, found) ==
    [w EXCEPT !.heap = NoteObjects(found),
              !.win.notes_list_data =
                  SortByDate(NoteObjects(found),
                             [i \in 1..Len(found) |-> found[i].filepath])]

\* search_index.build_index(self.notes_list_data); its exception is not caught
Rebuild(w) ==
    [w EXCEPT !.notes_data = BuildOrRaise(w.heap, w.win.notes_list_data).notes_data,
              !.win.raised = BuildOrRaise(w.heap, w.win.notes_list_data).raised]

\* Line 338 of load_initial_notes: notes_reloaded_signal.emit()
EmitReloaded(w, connected, in) ==
    IF connected
    THEN update_tag_filter_panel(
             update_note_list_display(w, w.win.notes_list_data, in))
    ELSE w

\* Lines 334-338 of load_initial_notes
LoadIndexed(w, connected, in) ==
    IF w.win.raised # "" THEN w
    ELSE EmitReloaded(clear_editor_and_preview(w), connected, in)

\* load_initial_notes, for one order of the directory listing.  connected is
\* whether notes_reloaded_signal has its slots: __init__ connects them after
\* its own call (lines 96-100).
load_initial_notes(w, listing, connected, in) ==
    LoadIndexed(
        Rebuild(ListNotes(w, IF NotesDir \in w.dirs
                             THEN scan_notes_directory(w.fs, w.dirs, NotesDir,
                                                       listing, in.clock)
                             ELSE <<>>)),
        connected, in)

\* f"# {title}\n\nStart writing here..."
StartContent(title) ==
    <<Ch("#"), SP>> \o title
    \o <<NL, NL, Ch("S"), Ch("t"), Ch("a"), Ch("r"), Ch("t"), SP,
          Ch("w"), Ch("r"), Ch("i"), Ch("t"), Ch("i"), Ch("n"), Ch("g"), SP,
          Ch("h"), Ch("e"), Ch("r"), Ch("e"), DOT, DOT, DOT>>

\* Lines 563-568 of create_new_note_dialog: the item of the new note is made
\* current
SelectNew(w, filepath, in) ==
    IF InSeq(filepath, w.win.shown) /\ w.win.selected # filepath
    THEN on_note_selected([w EXCEPT !.win.selected = filepath], filepath, in)
    ELSE w

\* Lines 559-568 of create_new_note_dialog
CreateIndexed(w, filepath, in) ==
    IF w.win.raised # "" THEN w
    ELSE SelectNew(
             update_tag_filter_panel(
                 filter_notes_list(
                     [w EXCEPT !.win.notes_list_data = SortByDate(w.heap, @)], in)),
             filepath, in)

\* Lines 556-557 of create_new_note_dialog
CreateListed(w, new, in) ==
    CreateIndexed(
        Rebuild([w EXCEPT !.heap = [p \in DOMAIN w.heap \cup {new.filepath} |->
                                       IF p = new.filepath THEN new ELSE w.heap[p]],
                          !.win.notes_list_data = Append(@, new.filepath)]),
        new.filepath, in)

\* Lines 554-573 of create_new_note_dialog, create_new_note having answered r;
\* its exception is not caught
CreateMade(w, r, in) ==
    IF r.raised # "" THEN [w EXCEPT !.win.raised = r.raised]
    ELSE IF ~r.ret.ok THEN [w EXCEPT !.fs = r.fs, !.dirs = r.dirs]
    ELSE CreateListed([w EXCEPT !.fs = r.fs, !.dirs = r.dirs], r.ret.note, in)

\* Lines 544-575 of create_new_note_dialog, check_unsaved_changes having
\* answered c
CreateAfterCheck(c, title, in) ==
    IF c.cancel \/ Strip(title) = <<>> \/ NotesDir \notin c.w.dirs THEN c.w
    ELSE CreateMade(c.w,
                    create_new_note(c.w.fs, c.w.dirs, NotesDir, title,
                                    <<<<Ch("n"), Ch("e"), Ch("w")>>>>,
                                    StartContent(title), in.clock),
                    in)

\* create_new_note_dialog, for the title the dialog returned (<<>>: the
\* dialog was dismissed or left empty)
create_new_note_dialog(w, title, in) ==
    CreateAfterCheck(check_unsaved_changes(w, in), title, in)

\* Lines 599-605 of delete_current_note
DeleteIndexed(w, in) ==
    IF w.win.raised # "" THEN w
    ELSE update_tag_filter_panel(filter_notes_list(clear_editor_and_preview(w), in))

\* Lines 595-610 of delete_current_note, delete_note_file having answered r
DeleteDone(w, id, r, in) ==
    IF ~r.ret THEN w
    ELSE DeleteIndexed(
             Rebuild([w EXCEPT !.fs = r.fs,
                               !.win.notes_list_data =
                                   SelectSeq(@, LAMBDA n : n # id)]),
             in)

\* Lines 580-595 of delete_current_note, for what _find_note_by_filepath found
DeleteFound(w, id, in) ==
    IF w.win.current_note_filepath = NoPath \/ id = NoPath \/ in.confirm # "Yes"
    THEN w
    ELSE DeleteDone(w, id, delete_note_file(w.fs, w.heap[id].filepath), in)

\* delete_current_note, for the answer to its confirmation
delete_current_note(w, in) ==
    DeleteFound(w, Find(w, w.win.current_note_filepath), in)

-----------------------------------------------------------------------------
(* The files the window is opened on, and what the user enters *)

NoteFile(map, body) ==
    File(Dashes \o <<NL, Y([kind |-> "map", map |-> map])>> \o Dashes \o <<NL>> \o body)

GuiStores ==
    { [fs |-> (IdA :> NoteFile([title |-> TitleA, tags |-> <<TagA>>,
                                 created |-> 1, updated |-> 1], <<Ch("a")>>)
               @@ IdB :> NoteFile([title |-> TitleAB, tags |-> <<TagB>>,
                                    created |-> 1, updated |-> 1], <<Ch("b")>>)),
       dirs |-> {NotesDir}],
      [fs |-> (IdA :> NoteFile([title |-> TitleA, tags |-> <<TagA>>,
                                 created |-> 1, updated |-> 1], <<Ch("a")>>)
               @@ IdB :> NoteFile([title |-> PyInt, created |-> 1, updated |-> 1],
                                   <<Ch("b")>>)),
       dirs |-> {NotesDir}],
      [fs |-> (IdA :> NoteFile([title |-> TitleA, tags |-> PyNone,
                                 created |-> 1, updated |-> 1], <<Ch("a")>>)),
       dirs |-> {NotesDir}],
      [fs |-> <<>>, dirs |-> {}] }

TypedChars == {Ch("b"), Surrogate}
GuiQueries == {<<>>, <<Ch("b")>>}
Replies == {"Save", "Discard", "Cancel"}

InitG ==
    /\ \E store \in GuiStores : fs = store.fs /\ dirs = store.dirs
    /\ now = 1
    /\ last = [op |-> "init"]
    /\ saved = NoSaved
    /\ InitIndex
    /\ win = NoWindow

\* The program as an event begins to be handled
World(op) ==
    [fs |-> fs, dirs |-> dirs, heap |-> heap, notes_data |-> notes_data,
     win |-> [win EXCEPT !.ev = NoEvent(op), !.events = @ + 1]]

Input(reply) == [clock |-> now, reply |-> reply, confirm |-> "No"]

\* The program as the handlers of an event leave it
Handled(w) ==
    /\ fs' = w.fs
    /\ dirs' = w.dirs
    /\ heap' = w.heap
    /\ notes_data' = w.notes_data
    /\ win' = w.win
    /\ UNCHANGED <<now, last, saved, built, edits, answer>>

\* The window takes events once __init__ has returned; an exception that
\* leaves a slot ends the process (PyQt6 aborts on it).  A run of the model
\* is MaxEvents events long.
Ready == win.started /\ win.raised = "" /\ win.events < MaxEvents

\* MainWindow.__init__
Open ==
    \E listing \in Listings(fs, NotesDir) :
        /\ ~win.started
        /\ Handled(load_initial_notes([World("open") EXCEPT !.win.started = TRUE],
                                      listing, FALSE, Input("Cancel")))

\* The Reload Notes action
Reload ==
    \E listing \in Listings(fs, NotesDir) :
        /\ Ready
        /\ Handled(load_initial_notes(World("reload"), listing, TRUE, Input("Cancel")))

\* The user changes the text of the editor (a character typed or pasted at
\* the end, or the last one deleted): textChanged, on_text_changed
Edited(text) ==
    Handled([World("type") EXCEPT
                !.win.text = text, !.win.timer = TRUE,
                !.win.timer_by = win.current_note_filepath,
                !.win.typed = win.current_note_filepath])

Type ==
    \E c \in TypedChars :
        /\ Ready
        /\ Len(win.text) < MaxText
        /\ Edited(Append(win.text, c))

Backspace ==
    /\ Ready
    /\ win.text # <<>>
    /\ Edited(SubSeq(win.text, 1, Len(win.text) - 1))

\* The editor's timer runs out: _emit_content_changed, on_editor_content_changed
TimerFires ==
    /\ Ready
    /\ win.timer
    /\ Handled(on_editor_content_changed(
                   [World("timer") EXCEPT !.win.timer = FALSE,
                                          !.win.timer_by = NoPath,
                                          !.win.ev.timer_by = win.timer_by],
                   Input("Cancel")))

\* The user picks a note in the list
SelectNote ==
    \E p \in Paths, reply \in Replies :
        /\ Ready
        /\ InSeq(p, win.shown)
        /\ p # win.selected
        /\ Handled(on_note_selected([World("select") EXCEPT !.win.selected = p],
                                    p, Input(reply)))

\* The user changes the text of the search bar
SetQuery ==
    \E query \in GuiQueries, reply \in Replies :
        /\ Ready
        /\ query # win.query
        /\ Handled(filter_notes_list([World("query") EXCEPT !.win.query = query],
                                     Input(reply)))

\* The user clicks an item of the tag panel
SelectTag ==
    \E item \in {[kind |-> "all"]}
                \cup {[kind |-> "tag", tag |-> win.tags_panel[i]] :
                         i \in 1..Len(win.tags_panel)},
       reply \in Replies :
        /\ Ready
        /\ win.tags_panel # <<>>
        /\ Handled(filter_notes_list([World("tag") EXCEPT !.win.tag_item = item],
                                     Input(reply)))

\* The Save action, enabled by update_action_states
SaveClicked ==
    /\ Ready
    /\ win.current_note_filepath # NoPath
    /\ win.unsaved_changes
    /\ Handled(save_current_note(World("save"), FALSE, Input("Cancel")).w)

\* The Delete action
DeleteClicked ==
    \E confirm \in {"Yes", "No"} :
        /\ Ready
        /\ win.current_note_filepath # NoPath
        /\ Handled(delete_current_note(World("delete"),
                                       [Input("Cancel") EXCEPT !.confirm = confirm]))

\* The New Note action
NewNote ==
    \E title \in {<<>>, TitleA}, reply \in Replies :
        /\ Ready
        /\ Handled(create_new_note_dialog(World("new"), title, Input(reply)))

NextG ==
    \/ Open \/ Reload \/ Type \/ Backspace \/ TimerFires \/ SelectNote
    \/ SetQuery \/ SelectTag \/ SaveClicked \/ DeleteClicked \/ NewNote \/ Tick

SpecGui == InitG /\ [][NextG]_vars

-----------------------------------------------------------------------------
(* The claims *)

\* A load that follows a successful save of the same path, the file untouched
\* in between
LoadAfterSave ==
    /\ last.op = "load"
    /\ saved.some
    /\ last.filepath = saved.note.filepath

\* C1: a load that follows a successful save(note) on the same path returns a
\* Note with the saved title, tags, created and updated, and with the saved
\* content stripped of leading and trailing whitespace.
C1_RoundTrip ==
    LoadAfterSave =>
        /\ last.ret.ok
        /\ last.ret.note.title = saved.note.title
        /\ last.ret.note.tags = saved.note.tags
        /\ last.ret.note.created = saved.note.created
        /\ last.ret.note.updated = saved.note.updated
        /\ last.ret.note.content = Strip(saved.note.content)

HasCR(s) == \E i \in 1..Len(s) : s[i] = CR

\* C1, amended: as C1, but the content that comes back is the stripped content
\* with every "\r\n" and lone "\r" turned into "\n".
C1_RoundTripNewlines ==
    LoadAfterSave =>
        /\ last.ret.ok
        /\ last.ret.note.title = saved.note.title
        /\ last.ret.note.tags = saved.note.tags
        /\ last.ret.note.created = saved.note.created
        /\ last.ret.note.updated = saved.note.updated
        /\ last.ret.note.content = ReadText(Strip(saved.note.content))

\* C1, witness: a note whose content has a carriage return and outer
\* whitespace to strip, or tags, was saved and loaded back.
C1_Witness ==
    /\ LoadAfterSave
    /\ last.ret.ok
    /\ HasCR(saved.note.content)
    /\ saved.note.tags # <<>>

\* The slug the spec derives from a title: lower-cased, each space an
\* underscore, every character outside [a-z0-9_] removed.
SlugChars == {Ch("a"), Ch("b"), USCORE}

SlugOf(title) ==
    SelectSeq([i \in 1..Len(title) |->
                 IF title[i] = SP THEN USCORE ELSE LowerCh(title[i])],
              LAMBDA x : x \in SlugChars)

IsDigits(s) == s # <<>> /\ \A i \in 1..Len(s) : InSeq(s[i], DigitCh)

\* name is <slug>_<digits>.md
IsNumbered(name, slug) ==
    \E n \in 1..(Len(name) - Len(slug) - 4) :
        /\ SubSeq(name, 1, Len(slug)) = slug
        /\ name[Len(slug) + 1] = USCORE
        /\ IsDigits(SubSeq(name, Len(slug) + 2, Len(slug) + 1 + n))
        /\ Drop(name, Len(slug) + 1 + n) = MD

\* Two calls of create in a row with the same title
CreatedTwice ==
    /\ last.op = "create"
    /\ last.before.some
    /\ last.before.title = last.title

\* C2: two calls of create with the same title in the same directory return two
\* Notes with distinct paths whose files both exist, the first <slug>.md and
\* the second <slug>_<digits>.md.
C2_CollisionResolution ==
    CreatedTwice =>
        /\ last.before.ret.ok
        /\ last.ret.ok
        /\ last.before.ret.note.filepath # last.ret.note.filepath
        /\ last.before.ret.note.filepath \in DOMAIN fs
        /\ last.ret.note.filepath \in DOMAIN fs
        /\ last.before.ret.note.filepath.name = SlugOf(last.title) \o MD
        /\ IsNumbered(last.ret.note.filepath.name, SlugOf(last.title))

\* The files of the pre-state are all there and as they were
FilesKept == \A q \in DOMAIN last.pre : q \in DOMAIN fs /\ fs[q] = last.pre[q]

\* C3: create goes through <slug>.md, <slug>_1.md, <slug>_2.md, ... to a path
\* that did not exist before the call and leaves every file that existed as it
\* was.
C3_CreateNeverOverwrites ==
    last.op = "create" =>
        /\ last.raised = ""
        /\ last.ret.ok => last.ret.note.filepath \notin DOMAIN last.pre
        /\ FilesKept

\* C4: create returns a Note with the given title, tags and content, with
\* created = updated = the current timestamp and with its file on disk, or it
\* returns a failure value; it never raises.
C4_CreateReturns ==
    last.op = "create" =>
        /\ last.raised = ""
        /\ last.ret.ok =>
              /\ last.ret.note.title = last.title
              /\ last.ret.note.tags = last.tags
              /\ last.ret.note.content = last.content
              /\ last.ret.note.created = last.at
              /\ last.ret.note.updated = last.at
              /\ last.ret.note.filepath \in DOMAIN fs

DeletedMissing ==
    /\ last.op = "delete"
    /\ last.filepath \notin DOMAIN last.pre

\* A path whose removal fails with an I/O error: os.remove refuses a directory
FailsToDelete(q) == q \in DOMAIN fs /\ fs[q].kind = "dir"

\* C5: deleting a path that does not exist does not raise, leaves the file
\* system as it was, and returns an outcome the caller can tell apart from the
\* outcome of a real I/O failure.
C5_NotFoundDistinguishable ==
    DeletedMissing =>
        /\ last.raised = ""
        /\ fs = last.pre
        /\ \A q \in Paths :
              FailsToDelete(q) => delete_note_file(fs, q).ret # last.ret

\* C5, amended: deleting a path that does not exist does not raise, leaves the
\* file system as it was and returns False; a delete that fails with an I/O
\* error returns False too.
C5_NotFoundReturnsFalse ==
    DeletedMissing =>
        /\ last.raised = ""
        /\ fs = last.pre
        /\ last.ret = FALSE
        /\ \A q \in Paths :
              FailsToDelete(q) => delete_note_file(fs, q).ret = FALSE

\* C5, witness: a missing path was deleted in a folder that also holds a file
\* and a path whose removal fails.
C5_Witness ==
    /\ DeletedMissing
    /\ \E q \in Paths : FailsToDelete(q)
    /\ \E q \in Paths : q \in DOMAIN fs /\ fs[q].kind = "file"

IsMdName(name) ==
    Len(name) >= 3 /\ SubSeq(name, Len(name) - 2, Len(name)) = MD

\* The .md files of the scanned folder; shown: only those whose names do not
\* begin with a dot
MdFiles(shown) ==
    {p \in DOMAIN last.pre :
        /\ p.dir = last.notes_dir
        /\ last.pre[p].kind # "dir"
        /\ IsMdName(p.name)
        /\ shown => p.name[1] # DOT}

Loads(p) == load_note(last.pre, p, last.at)

FailingMd(shown) == {p \in MdFiles(shown) : ~Loads(p).ok}

\* The scan returned the Notes of the loadable files of S, each once
ScanReturned(S) ==
    LET good == {p \in S : Loads(p).ok}
    IN  /\ Len(last.ret) = Cardinality(good)
        /\ {last.ret[i] : i \in 1..Len(last.ret)} = {Loads(p).note : p \in good}

\* C6: scanning a folder that holds N loadable .md files and one .md file whose
\* load fails returns exactly the N Notes of the loadable files.
C6_ScanSkipsFailure ==
    (last.op = "scan" /\ Cardinality(FailingMd(FALSE)) = 1)
        => ScanReturned(MdFiles(FALSE))

\* C6, amended: scanning a folder whose .md files with names that do not begin
\* with a dot are N loadable files and one file whose load fails returns
\* exactly the N Notes of those loadable files.
C6_ScanSkipsFailureShown ==
    (last.op = "scan" /\ Cardinality(FailingMd(TRUE)) = 1)
        => ScanReturned(MdFiles(TRUE))

\* C6, witness: a scan listed the one failing file first, went on, and
\* returned the Note of the loadable file listed after it.
C6_Witness ==
    /\ last.op = "scan"
    /\ Cardinality(FailingMd(TRUE)) = 1
    /\ Len(last.listing) = 2
    /\ ~Loads(last.listing[1]).ok
    /\ Len(last.ret) = 1
    /\ last.ret[1].filepath = last.listing[2]

ReadableFile(p) == p \in DOMAIN last.pre /\ last.pre[p].kind = "file"

\* The front matter of the text as load_note reads it
FrontMatter(p) == parse_yaml_front_matter(ReadText(last.pre[p].text))

HasMapping(p) ==
    LET m == RegexMatch(ReadText(last.pre[p].text))
    IN  m.matched /\ SafeLoad(m.group1).kind = "map"

\* C7: loading a readable file returns a Note whatever its front-matter block
\* holds, with defaulted metadata when the block is not a usable mapping, and a
\* scan returns a Note for every readable file it lists.
C7_LoadNeverFailsOnMetadata ==
    /\ (last.op = "load" /\ ReadableFile(last.filepath)) =>
          /\ last.ret.ok
          /\ ~HasMapping(last.filepath) =>
                /\ last.ret.note.title = Splitext(last.filepath.name)[1]
                /\ last.ret.note.tags = <<>>
                /\ last.ret.note.created = last.at
                /\ last.ret.note.updated = last.at
    /\ last.op = "scan" =>
          \A i \in 1..Len(last.listing) :
              ReadableFile(last.listing[i]) =>
                  \E k \in 1..Len(last.ret) : last.ret[k].filepath = last.listing[i]

LoadedFile == last.op = "load" /\ ReadableFile(last.filepath) /\ last.ret.ok

\* C8: a loaded file with no front matter gives title = the base name without
\* its extension, tags = [], content = the whole text read, created = the
\* timestamp of the load and updated = created; a loaded file with a mapping
\* gives each key its value when present and its default when missing, the
\* default of updated being the loaded created.
C8_DefaultsOnMissingMetadata ==
    LoadedFile =>
        LET text == ReadText(last.pre[last.filepath].text)
            note == last.ret.note
            base == Splitext(last.filepath.name)[1]
        IN  /\ ~RegexMatch(text).matched =>
                  /\ note.title = base
                  /\ note.tags = <<>>
                  /\ note.content = text
                  /\ note.created = last.at
                  /\ note.updated = note.created
            /\ HasMapping(last.filepath) =>
                  LET m == FrontMatter(last.filepath).metadata
                  IN  /\ note.title = IF "title" \in DOMAIN m THEN m.title ELSE base
                      /\ note.tags = IF "tags" \in DOMAIN m THEN m.tags ELSE <<>>
                      /\ note.created =
                            IF "created" \in DOMAIN m THEN m.created ELSE last.at
                      /\ note.updated =
                            IF "updated" \in DOMAIN m THEN m.updated ELSE note.created

\* C8, witness: a file without front matter was loaded after the clock had
\* moved on, and its text has a line end the read translates.
C8_Witness ==
    /\ LoadedFile
    /\ ~RegexMatch(ReadText(last.pre[last.filepath].text)).matched
    /\ HasCR(last.pre[last.filepath].text)
    /\ last.at > 1

\* The fields build_index took of note id: lower-cased, as the flags select
FieldsOf(id, search_title, search_tags, search_content) ==
    (IF search_title THEN <<Lower(built[id].title)>> ELSE <<>>)
    \o (IF search_tags
        THEN [i \in 1..Len(built[id].tags) |-> Lower(built[id].tags[i])]
        ELSE <<>>)
    \o (IF search_content THEN <<Lower(built[id].content)>> ELSE <<>>)

Indexed == {notes_data[i].original_note : i \in 1..Len(notes_data)}

\* C9: search with a non-empty query returns exactly the indexed notes for
\* which every whitespace-separated term of the lower-cased query is a
\* substring of the lower-cased enabled fields joined by single spaces.  A note
\* is the one Note object of its path.
C9_SearchAnd ==
    (answer.op = "search" /\ answer.query # <<>>) =>
        {answer.ret[i] : i \in 1..Len(answer.ret)} =
            {id \in Indexed :
                LET terms == Split(Lower(answer.query))
                    text  == Join(FieldsOf(id, answer.search_title,
                                           answer.search_tags, answer.search_content))
                IN  \A k \in 1..Len(terms) : Contains(text, terms[k])}

\* C9, witness: a search of two terms in upper and lower case, over an index of
\* two notes, returned one of them and left the other out.
C9_Witness ==
    /\ answer.op = "search"
    /\ Len(Split(answer.query)) = 2
    /\ Lower(answer.query) # answer.query
    /\ Cardinality(Indexed) = 2
    /\ Len(answer.ret) = 1

\* C10: the answers of search, filter_by_tag and get_all_tags are those of the
\* note list and the field values of the last build, whatever was assigned to
\* the Note objects since.
C10_FixedSnapshot ==
    LET snapshot == build_index(built, Originals(notes_data))
    IN  /\ answer.op = "search" =>
              answer.ret = search(snapshot, answer.query, answer.search_title,
                                  answer.search_tags, answer.search_content)
        /\ answer.op = "filter_by_tag" =>
              answer.ret = filter_by_tag(snapshot, answer.tag)
        /\ answer.op = "get_all_tags" =>
              answer.ret = get_all_tags(snapshot, built)

\* The note list handed to the last build_index, in its order
BuildList == [i \in 1..Len(notes_data) |-> notes_data[i].original_note]

\* C11: a search with an empty or whitespace-only query returns all the indexed
\* notes, each as many times as it was passed to build_index, in build order,
\* whatever the field flags are.
C11_EmptyQueryReturnsAll ==
    (answer.op = "search" /\ Strip(answer.query) = <<>>) => answer.ret = BuildList

\* C11, witness: a whitespace-only query with every flag off was answered over
\* an index built from a list that names one note twice.
C11_Witness ==
    /\ answer.op = "search"
    /\ answer.query = <<SP>>
    /\ ~answer.search_title /\ ~answer.search_tags /\ ~answer.search_content
    /\ Len(BuildList) = 2
    /\ BuildList[1] = BuildList[2]
    /\ Len(answer.ret) = 2

\* r takes elements of l in the order of l
IsSubsequence(r, l) ==
    \E f \in [1..Len(r) -> 1..Len(l)] :
        /\ \A i, j \in 1..Len(r) : i < j => f[i] < f[j]
        /\ \A i \in 1..Len(r) : l[f[i]] = r[i]

NoRepeats(r) == \A i, j \in 1..Len(r) : r[i] = r[j] => i = j

\* C12: for a non-empty query the result of search is a subsequence of the
\* indexed notes in build order in which each note appears at most once.
C12_OrderedOnce ==
    (answer.op = "search" /\ answer.query # <<>>) =>
        IsSubsequence(answer.ret, BuildList) /\ NoRepeats(answer.ret)

\* C12, amended: for a query that is not empty and not whitespace only, the
\* result of search is a subsequence of the indexed notes in build order in
\* which each note appears at most once.
C12_OrderedOnceTerms ==
    (answer.op = "search" /\ Strip(answer.query) # <<>>) =>
        IsSubsequence(answer.ret, BuildList) /\ NoRepeats(answer.ret)

\* C12, witness: a query of one term matched, through its title and through
\* its content, a note that the build list names twice, and returned it once.
C12_Witness ==
    /\ answer.op = "search"
    /\ Len(Split(answer.query)) = 1
    /\ answer.search_title /\ answer.search_content
    /\ Len(BuildList) = 2
    /\ BuildList[1] = BuildList[2]
    /\ Contains(Lower(built[BuildList[1]].title), Lower(Strip(answer.query)))
    /\ Contains(Lower(built[BuildList[1]].content), Lower(Strip(answer.query)))
    /\ answer.ret = <<BuildList[1]>>

\* Note id had, at the build, a tag equal to tag when case is ignored
HasTag(id, tag) ==
    \E k \in 1..Len(built[id].tags) : Lower(built[id].tags[k]) = Lower(tag)

\* C13: filter_by_tag returns, in build order, exactly the indexed notes that
\* have a tag equal to the given tag when case is ignored; an empty or
\* whitespace-only tag returns all the indexed notes.
C13_FilterByTag ==
    answer.op = "filter_by_tag" =>
        answer.ret = IF Strip(answer.tag) = <<>> THEN BuildList
                     ELSE SelectSeq(BuildList, LAMBDA id : HasTag(id, answer.tag))

\* C13, witness: of two indexed notes, the filter returned the one whose tag
\* differs from the given tag in case only and left out the one whose only tag
\* holds the given tag as a part.
C13_Witness ==
    /\ answer.op = "filter_by_tag"
    /\ Len(BuildList) = 2
    /\ Len(answer.ret) = 1
    /\ \E k \in 1..Len(built[answer.ret[1]].tags) :
          /\ built[answer.ret[1]].tags[k] # answer.tag
          /\ Lower(built[answer.ret[1]].tags[k]) = Lower(answer.tag)
    /\ \E i \in 1..2 :
          /\ BuildList[i] # answer.ret[1]
          /\ Len(built[BuildList[i]].tags) = 1
          /\ Contains(Lower(built[BuildList[i]].tags[1]), Lower(answer.tag))

\* The tags of the indexed notes, as the notes spell them
IndexedTags ==
    UNION {{built[id].tags[k] : k \in 1..Len(built[id].tags)} : id \in Indexed}

ParsedText == ReadText(last.pre[last.filepath].text)

Parsed == parse_yaml_front_matter(ParsedText)

\* C15: when the leading block is absent, is malformed YAML or parses to a
\* value that is not a mapping, parse_yaml_front_matter does not raise and
\* returns an empty mapping and the whole text, block included, as the body.
C15_ParseDegrades ==
    (last.op = "load" /\ ReadableFile(last.filepath) /\ ~HasMapping(last.filepath)) =>
        /\ Parsed.raised = ""
        /\ Parsed.metadata = NoMeta
        /\ Parsed.content = ParsedText

\* A line of t begins at c and is "---" and then whitespace only
DelimiterLine(t, c) ==
    /\ DashesAt(t, c)
    /\ \E e \in (c + 3)..Len(t) : t[e] = NL /\ \A k \in (c + 3)..(e - 1) : IsSpace(t[k])

\* The text after the line that begins at c
AfterLine(t, c) == Drop(t, Min({e \in (c + 3)..Len(t) : t[e] = NL}))

\* The closing delimiter line: the first delimiter line after the opening one
\* and a line of block
ClosingLine(t) ==
    Min({c \in 6..Len(t) : EndsLine(t[c - 1]) /\ DelimiterLine(t, c)})

\* b without the whitespace-only lines it begins with
DropBlankLines(b) ==
    Drop(b, Max({0} \cup {e \in 1..Len(b) : b[e] = NL /\ \A k \in 1..e : IsSpace(b[k])}))

LoadedMapping ==
    last.op = "load" /\ ReadableFile(last.filepath) /\ HasMapping(last.filepath)

\* C16: when the leading block parses to a mapping, parse_yaml_front_matter
\* returns the mapping and, as the body, exactly the text after the closing
\* delimiter line, blank lines at its start included.
C16_BodyAfterDelimiter ==
    LoadedMapping =>
        /\ Parsed.raised = ""
        /\ Parsed.metadata = SafeLoad(RegexMatch(ParsedText).group1).map
        /\ Parsed.content = AfterLine(ParsedText, ClosingLine(ParsedText))

\* C16, amended: as C16, but the body is the text after the closing delimiter
\* line without the whitespace-only lines that come first in it.
C16_BodyAfterBlankLines ==
    LoadedMapping =>
        /\ Parsed.raised = ""
        /\ Parsed.metadata = SafeLoad(RegexMatch(ParsedText).group1).map
        /\ Parsed.content = DropBlankLines(AfterLine(ParsedText, ClosingLine(ParsedText)))

\* C16, witness: the text after the closing delimiter line of a loaded file
\* began with a blank line and went on with a body.
C16_Witness ==
    /\ LoadedMapping
    /\ AfterLine(ParsedText, ClosingLine(ParsedText)) # <<>>
    /\ Head(AfterLine(ParsedText, ClosingLine(ParsedText))) = NL
    /\ Parsed.content # <<>>
    /\ last.ret.ok /\ last.ret.note.content = Parsed.content

DeletedFile ==
    /\ last.op = "delete"
    /\ last.filepath \in DOMAIN last.pre
    /\ last.pre[last.filepath].kind # "dir"

C18_ScanMdOnly ==
    last.op = "scan" => ScanReturned(MdFiles(FALSE)) /\ fs = last.pre

\* C18, amended: a scan returns one Note for each loadable .md file of the
\* folder whose name does not begin with a dot and none for any other file, and
\* leaves every file as it was.
C18_ScanShownMdOnly ==
    last.op = "scan" => ScanReturned(MdFiles(TRUE)) /\ fs = last.pre

\* C18, witness: a scan of a folder that holds a loadable .md file and a
\* readable file with another extension returned the one Note.
C18_Witness ==
    /\ last.op = "scan"
    /\ Len(last.ret) = 1
    /\ \E q \in DOMAIN last.pre :
          /\ q.dir = last.notes_dir
          /\ ~IsMdName(q.name)
          /\ Loads(q).ok
    /\ fs = last.pre

ScannedMissing == last.op = "scan" /\ last.notes_dir \notin dirs

\* What a scan of the folder answers when the folder exists and is empty
ScanOfEmpty ==
    scan_notes_directory(<<>>, {last.notes_dir}, last.notes_dir, <<>>, last.at)

\* C19: a scan of a folder that does not exist does not raise and answers with
\* an outcome the caller can tell from that of an existing empty folder.
C19_MissingDistinguishable ==
    ScannedMissing => fs = last.pre /\ last.ret # ScanOfEmpty

\* C19, amended: a scan of a folder that does not exist does not raise, changes
\* nothing and returns the empty list, which is what a scan of an existing
\* empty folder returns.
C19_MissingReturnsEmpty ==
    ScannedMissing => fs = last.pre /\ last.ret = <<>> /\ last.ret = ScanOfEmpty

\* C19, witness: a folder that does not exist was scanned while the notes
\* folder held a loadable note.
C19_Witness ==
    /\ ScannedMissing
    /\ \E q \in DOMAIN fs : load_note(fs, q, now).ok

\* C20: the file create makes is named by the slug of the title and ".md", or
\* by the slug, "_", a number and ".md" when that name is taken; the same title
\* gives the same slug.
C20_SlugDerivation ==
    last.op = "create" =>
        /\ last.raised = ""
        /\ (last.ret.ok /\ SlugOf(last.title) # <<>>) =>
              \/ last.ret.note.filepath.name = SlugOf(last.title) \o MD
              \/ IsNumbered(last.ret.note.filepath.name, SlugOf(last.title))

\* The mapping a file of the pre-state stores in its front matter, if any
StoredIn(files, p) ==
    LET m == RegexMatch(ReadText(files[p].text))
    IN  IF m.matched /\ SafeLoad(m.group1).kind = "map"
        THEN SafeLoad(m.group1).map
        ELSE NoMeta

\* The file stores no 'updated', or stores both times with updated >= created
StoresOrderedTimes(files, p) ==
    LET m == StoredIn(files, p)
    IN  \/ "updated" \notin DOMAIN m
        \/ "created" \in DOMAIN m /\ m.updated >= m.created

\* C21: every Note that create, load or scan returns has updated >= created.
C21_UpdatedNotBeforeCreated ==
    /\ (last.op = "load" /\ last.ret.ok) =>
          last.ret.note.updated >= last.ret.note.created
    /\ last.op = "scan" =>
          \A i \in 1..Len(last.ret) : last.ret[i].updated >= last.ret[i].created
    /\ (last.op = "create" /\ last.raised = "" /\ last.ret.ok) =>
          last.ret.note.updated >= last.ret.note.created

\* C21, amended: a Note that load or scan returns for a file that stores no
\* 'updated', or stores both times with updated >= created, has
\* updated >= created.
C21_UpdatedNotBeforeCreatedStored ==
    /\ (last.op = "load" /\ last.ret.ok /\ StoresOrderedTimes(last.pre, last.filepath)) =>
          last.ret.note.updated >= last.ret.note.created
    /\ last.op = "scan" =>
          \A i \in 1..Len(last.ret) :
              StoresOrderedTimes(last.pre, last.ret[i].filepath) =>
                  last.ret[i].updated >= last.ret[i].created

\* C21, witness: a file that stores created and a later updated was loaded.
C21_Witness ==
    /\ last.op = "load"
    /\ last.ret.ok
    /\ {"created", "updated"} \subseteq DOMAIN StoredIn(last.pre, last.filepath)
    /\ last.ret.note.updated > last.ret.note.created

\* The step is a load of the path the load before it read, the file untouched
LoadedAgain ==
    /\ last.op = "load" /\ last.ret.ok
    /\ last'.op = "load" /\ last'.ret.ok
    /\ last'.filepath = last.filepath
    /\ last'.pre = last.pre

C23_PathsUnique ==
    /\ last.op = "scan" =>
          /\ \A i \in 1..Len(last.ret) : last.ret[i].filepath.name # <<>>
          /\ \A i, j \in 1..Len(last.ret) :
                last.ret[i].filepath = last.ret[j].filepath => i = j
    /\ (last.op = "create" /\ last.raised = "" /\ last.ret.ok) =>
          /\ last.ret.note.filepath.name # <<>>
          /\ last.ret.note.filepath \notin DOMAIN last.pre

\* C23, witness: a scan returned two Notes.
C23_Witness ==
    /\ last.op = "scan"
    /\ Len(last.ret) = 2
    /\ last.ret[1].filepath # last.ret[2].filepath

\* The path names no directory and no file the process may not write
WritableTarget ==
    ~(last.note.filepath \in DOMAIN last.pre
      /\ last.pre[last.note.filepath].kind \in {"dir", "locked"})

\* The front matter of the four fields, a blank line, the stripped content
Serialized(note) ==
    <<DASH, DASH, DASH, NL,
      Y([kind |-> "map",
         map |-> [title |-> note.title, tags |-> note.tags,
                  created |-> note.created, updated |-> note.updated]]),
      DASH, DASH, DASH, NL, NL>> \o Strip(note.content)

\* C24: a save to a path that names a writable place, with or without a
\* directory part, the directory there or not, returns True, and the file then
\* holds the front matter and the stripped content.
C24_SaveCreatesParents ==
    (last.op = "save" /\ WritableTarget /\ Encodable(last.note.content)) =>
        /\ last.ret = TRUE
        /\ last.note.filepath \in DOMAIN fs
        /\ fs[last.note.filepath] = File(Serialized(last.note))

\* C25: save_note leaves the Note it was given as it was, whether it returns
\* True or False; it does not change updated.
C25_SaveLeavesNote ==
    last.op = "save" => last.after = last.note

\* C25, witness: a save that succeeded and wrote 'updated' as the caller had
\* set it.
C25_Witness ==
    /\ last.op = "save"
    /\ last.ret = TRUE
    /\ fs[last.note.filepath] = File(Serialized(last.after))
    /\ last.note.updated > last.note.created

\* The index a new SearchIndex holds after build_index(L)
FreshIndex(L) ==
    [i \in 1..Len(L) |->
        [id |-> heap[L[i]].filepath,
         title |-> Lower(heap[L[i]].title),
         tags |-> [k \in 1..Len(heap[L[i]].tags) |-> Lower(heap[L[i]].tags[k])],
         content |-> Lower(heap[L[i]].content),
         original_note |-> L[i]]]

\* C26: after build_index(L2) on an index that held the entries of an earlier
\* build, search, filter_by_tag and get_all_tags answer as they do on a new
\* index after build_index(L2).
C26_BuildReplaces ==
    answer.op = "build" =>
        /\ \A query \in Queries, search_title, search_tags, search_content \in BOOLEAN :
              search(notes_data, query, search_title, search_tags, search_content)
                = search(FreshIndex(answer.notes), query,
                         search_title, search_tags, search_content)
        /\ \A tag \in TagQueries :
              filter_by_tag(notes_data, tag) = filter_by_tag(FreshIndex(answer.notes), tag)
        /\ get_all_tags(notes_data, heap) = get_all_tags(FreshIndex(answer.notes), heap)

\* C26, witness: a list without note A was built over an index that held A.
C26_Witness ==
    /\ answer.op = "build"
    /\ IdA \in answer.had
    /\ answer.notes # <<>>
    /\ \A i \in 1..Len(answer.notes) : answer.notes[i] # IdA

\* C28: when save_note returns False, a file that was at the path before the
\* call is still there with the content it had.
C28_FailedSaveKeepsFile ==
    (last.op = "save" /\ last.ret = FALSE /\ last.note.filepath \in DOMAIN last.pre) =>
        /\ last.note.filepath \in DOMAIN fs
        /\ fs[last.note.filepath] = last.pre[last.note.filepath]

\* The paths filter_notes_list shows when the index holds what build_index
\* makes of the notes list as it is now
ShownOfCurrentNotes ==
    ItemPaths(heap, FilteredNotes(FreshIndex(win.notes_list_data), heap,
                                  win.notes_list_data, win.query, win.ev.filter.tag))

\* C27: whenever the window has run filter_notes_list, the list it shows is
\* the one the current title, tags and content of the notes in
\* notes_list_data give for the query and tag filter, as after a rebuild of
\* the index.
C27_FilterReflectsNotes ==
    (win.raised = "" /\ win.ev.filter.ran) => win.shown = ShownOfCurrentNotes

\* C29: after the window scanned the folder and built the index, build_index
\* has not raised, and every Note the scan returned has a string title, a
\* list of string tags and a string content.
C29_ScanFeedsBuild ==
    win.ev.op \in {"open", "reload"} =>
        /\ win.raised = ""
        /\ \A p \in DOMAIN heap : Indexable(heap[p])

\* C30: text typed into a note is not dropped for another note without the
\* unsaved-changes prompt, and a timer started by typing into a note sets
\* 'updated' of, and saves, no other note.
C30_NoEditLostOrMisplaced ==
    /\ (win.ev.lost # NoPath /\ win.current_note_filepath \notin {NoPath, win.ev.lost})
          => win.ev.prompted
    /\ (win.ev.op = "timer" /\ win.ev.timer_by # NoPath)
          => win.ev.bumped \subseteq {win.ev.timer_by}

=============================================================================
